---- MODULE Spec2Model ----
(***************************************************************************)
(* Model of the merchant admin layout (AdminLayout.tsx): the session gate, *)
(* the active-item resolution, the expansion state of the sidebar          *)
(* sections, the responsive sidebar and the sign-out handler; and of the   *)
(* sign-in page (SignIn): its submit, password-reset and Google handlers.  *)
(*                                                                         *)
(* Every event handler runs to completion and is followed by a re-render,  *)
(* so each action below is one handler (with the effects it triggers)      *)
(* followed by the render of the new state into `output`.                  *)
(* Route paths are the strings of the source; startsWith is the            *)
(* character-level prefix test of JavaScript.                              *)
(***************************************************************************)
EXTENDS Integers, Sequences, FiniteSets, TLC

VARIABLES
    mounted,              \* the layout component is mounted
    auth,                 \* AuthSnapshot read by useAuth(): a record whose fields may be missing
    pathname,             \* location.pathname, owned by the router
    innerWidth,           \* window.innerWidth, owned by the browser
    resizeListeners,      \* number of 'resize' listeners the layout has registered on window
    isSidebarOpen,        \* useState(false)
    isProfileMenuOpen,    \* useState(false)
    isNotificationsOpen,  \* useState(false)
    isMobile,             \* useState(window.innerWidth < 768)
    expandedMenus,        \* useState({ Catalog: true }): a map whose entries may be missing
    calls,                \* calls issued to the auth collaborator and the router by handleLogout
    output,               \* what the last render returned
    lastEvent,            \* the handler that ran last (history)
    prevToggle,           \* the toggleSubmenu call that immediately preceded lastEvent, if any (history)
    signIn,               \* state of the SignIn page: error, isSubmitting, showForgotPassword
    requests,             \* the async handler runs of SignIn that are suspended at an await
    signInEvent           \* the SignIn step that ran last and what it did (history)

\* the variables of the admin layout
layoutVars == << mounted, auth, pathname, innerWidth, resizeListeners, isSidebarOpen,
                 isProfileMenuOpen, isNotificationsOpen, isMobile, expandedMenus,
                 calls, output, lastEvent, prevToggle >>

\* the variables of the sign-in page
signInVars == << signIn, requests, signInEvent >>

vars == << mounted, auth, pathname, innerWidth, resizeListeners, isSidebarOpen,
           isProfileMenuOpen, isNotificationsOpen, isMobile, expandedMenus,
           calls, output, lastEvent, prevToggle, signIn, requests, signInEvent >>

uiState == << isSidebarOpen, isProfileMenuOpen, isNotificationsOpen, isMobile, expandedMenus >>

----------------------------------------------------------------------------
(* Bounds of the model                                                     *)

\* viewport widths range over Breakpoint-1-WidthSpread .. Breakpoint+WidthSpread
WidthSpread == 1
\* a route is a base path followed by at most MaxSuffix extra "/1" segments
MaxSuffix == 1
\* number of sign-outs recorded in `calls`
MaxSignOuts == 1
\* number of SignIn handler runs suspended at an await at the same time
MaxInFlight == 2

----------------------------------------------------------------------------
(* Program constants and data                                              *)

Breakpoint == 768

LoginRoute == "/business-login"

navigationItems ==
    << [name |-> "Dashboard", path |-> "/business/dashboard"],
       [name |-> "Catalog",
        submenu |-> << [name |-> "Products",   path |-> "/business/catalog/products"],
                       [name |-> "Categories", path |-> "/business/catalog/categories"],
                       [name |-> "Attributes", path |-> "/business/catalog/attributes"] >>],
       [name |-> "Orders",     path |-> "/business/orders"],
       [name |-> "Inventory",  path |-> "/business/inventory"],
       [name |-> "Customers",  path |-> "/business/customers"],
       [name |-> "Payments",   path |-> "/business/payments"],
       [name |-> "Promotions", path |-> "/business/promotions"],
       [name |-> "Reviews",    path |-> "/business/reviews"],
       [name |-> "Reports",    path |-> "/business/reports"],
       [name |-> "Support",    path |-> "/business/support"],
       [name |-> "Settings",   path |-> "/business/settings"] >>

hasSubmenu(item) == "submenu" \in DOMAIN item

ItemIndexes == 1..Len(navigationItems)

\* the sections: the items that carry a submenu
SectionIndexes == { i \in ItemIndexes : hasSubmenu(navigationItems[i]) }

SectionNames == { navigationItems[i].name : i \in SectionIndexes }

\* position of the item called n in navigationItems
IndexOf(n) == CHOOSE i \in ItemIndexes : navigationItems[i].name = n

----------------------------------------------------------------------------
(* Inputs                                                                  *)

Widths == (Breakpoint - 1 - WidthSpread)..(Breakpoint + WidthSpread)

BasePaths == { "/business/dashboard", "/business/catalog/products",
               "/business/catalog/categories", "/business/catalog", LoginRoute }

RECURSIVE Suffixes(_)
Suffixes(n) == IF n = 0 THEN {""} ELSE {""} \cup { "/1" \o s : s \in Suffixes(n - 1) }

Routes == { p \o s : p \in BasePaths, s \in Suffixes(MaxSuffix) }

AuthFields == { "isAuthenticated", "isMerchant" }

\* every snapshot: each field true, false or missing (undefined)
AuthSnapshots == UNION { [D -> BOOLEAN] : D \in SUBSET AuthFields }

----------------------------------------------------------------------------
(* JavaScript helpers                                                      *)

\* truthiness of obj[k]: a missing property reads as undefined, which is falsy
Truthy(obj, k) == k \in DOMAIN obj /\ obj[k]

\* { ...obj, [k]: v }
Put(obj, k, v) == [x \in DOMAIN obj \cup {k} |-> IF x = k THEN v ELSE obj[x]]

\* String.prototype.startsWith
startsWith(s, p) == Len(p) <= Len(s) /\ SubSeq(s, 1, Len(p)) = p

----------------------------------------------------------------------------
(* Render                                                                  *)

\* faulty variant: the gate redirects only when both flags are falsy
UnauthorizedBoth(a) == ~Truthy(a, "isAuthenticated") /\ ~Truthy(a, "isMerchant")

\* faulty variant: the gate compares with false (=== false), so a missing field passes
UnauthorizedFailOpen(a) ==
    \/ ("isAuthenticated" \in DOMAIN a /\ ~a["isAuthenticated"])
    \/ ("isMerchant" \in DOMAIN a /\ ~a["isMerchant"])

\* if (!isAuthenticated || !isMerchant)
Unauthorized(a) == ~Truthy(a, "isAuthenticated") \/ ~Truthy(a, "isMerchant")

\* faulty variant: a section is matched exactly, like a flat item
isMenuActiveExact(path, item) ==
    IF hasSubmenu(item)
    THEN \E i \in 1..Len(item.submenu) : path = item.submenu[i].path
    ELSE path = item.path

\* const isMenuActive = hasSubmenu ? item.submenu.some(...startsWith...) : pathname === item.path
isMenuActive(path, item) ==
    IF hasSubmenu(item)
    THEN \E i \in 1..Len(item.submenu) : startsWith(path, item.submenu[i].path)
    ELSE path = item.path

\* const isExpanded = expandedMenus[item.name] || false
isExpanded(em, item) == Truthy(em, item.name)

\* const isSubItemActive = location.pathname.startsWith(subItem.path)
isSubItemActive(path, subItem) == startsWith(path, subItem.path)

\* The element the component function returns; menuActive, expanded and
\* subItemActive are indexed like navigationItems. The sub-items of a section
\* are rendered (and resolved) only while the section is expanded.
Render(a, path, open, mobile, em, notif, profile) ==
    IF Unauthorized(a)
    THEN [kind |-> "Navigate", to |-> LoginRoute, state |-> [from |-> path], replace |-> TRUE]
    ELSE [kind |-> "shell",
          menuActive |-> [i \in ItemIndexes |-> isMenuActive(path, navigationItems[i])],
          expanded |-> [i \in SectionIndexes |-> isExpanded(em, navigationItems[i])],
          subItemActive |->
              [i \in { j \in SectionIndexes : isExpanded(em, navigationItems[j]) } |->
                  [k \in 1..Len(navigationItems[i].submenu) |->
                      isSubItemActive(path, navigationItems[i].submenu[k])]],
          sidebarOpen |-> open,
          closeButton |-> mobile,
          backdrop |-> mobile /\ open,
          notifications |-> notif,
          profileMenu |-> profile,
          outlet |-> TRUE]

RenderOutput ==
    IF mounted
    THEN Render(auth, pathname, isSidebarOpen, isMobile, expandedMenus,
                isNotificationsOpen, isProfileMenuOpen)
    ELSE [kind |-> "none"]

ShellRendered == mounted /\ output.kind = "shell"

----------------------------------------------------------------------------
(* Handlers and effects                                                    *)

\* useState initial value of expandedMenus
InitialExpandedMenus == [n \in {"Catalog"} |-> TRUE]

\* handleResize: setIsMobile(window.innerWidth < 768)
handleResizeMobile(w) == w < Breakpoint

\* faulty variant: the threshold itself counts as narrow
handleResizeSidebarStrict(w, open) == IF w > Breakpoint THEN TRUE ELSE open

\* handleResize: if (window.innerWidth >= 768) setIsSidebarOpen(true)
handleResizeSidebar(w, open) == IF w >= Breakpoint THEN TRUE ELSE open

\* faulty variant: the effect matches the sub-item paths exactly
isSubmenuActiveExact(path, item) ==
    \E i \in 1..Len(item.submenu) : path = item.submenu[i].path

\* item.submenu.some(subItem => location.pathname.startsWith(subItem.path))
isSubmenuActive(path, item) ==
    \E i \in 1..Len(item.submenu) : startsWith(path, item.submenu[i].path)

\* faulty variant: the effect synchronises the entry with the route (collapses an inactive section)
autoExpandItemSync(path, item, em) ==
    IF hasSubmenu(item)
    THEN Put(em, item.name, isSubmenuActive(path, item))
    ELSE em

\* one iteration of the forEach of the auto-expand effect
autoExpandItem(path, item, em) ==
    IF hasSubmenu(item) /\ isSubmenuActive(path, item)
    THEN Put(em, item.name, TRUE)
    ELSE em

RECURSIVE autoExpandFrom(_, _, _)
autoExpandFrom(i, path, em) ==
    IF i > Len(navigationItems)
    THEN em
    ELSE autoExpandFrom(i + 1, path, autoExpandItem(path, navigationItems[i], em))

\* the effect with dependency [location.pathname]
autoExpand(path, em) == autoExpandFrom(1, path, em)

\* faulty variant: the effect has an empty dependency list and runs on mount only
routeEffectMountOnly(old, new, em) == em

\* the effect re-runs only when the pathname differs from the previous render's
routeEffect(old, new, em) == IF new # old THEN autoExpand(new, em) ELSE em

\* faulty variant: the handler opens the sidebar instead of flipping it
toggleSidebarOpen(open) == TRUE

\* setIsSidebarOpen(!isSidebarOpen)
toggleSidebar(open) == ~open

\* faulty variant: the handler expands the section instead of flipping it
toggleSubmenuExpand(prev, name) == Put(prev, name, TRUE)

\* faulty variant: the handler forgets to spread prev and drops the other entries
toggleSubmenuOnly(prev, name) == [x \in {name} |-> ~Truthy(prev, name)]

\* setExpandedMenus(prev => ({ ...prev, [name]: !prev[name] }))
toggleSubmenu(prev, name) == Put(prev, name, ~Truthy(prev, name))

\* faulty variant: the navigation is issued before logout
handleLogoutNavigateFirst(cs) ==
    cs \o << [op |-> "navigate", arg |-> LoginRoute], [op |-> "logout", arg |-> ""] >>

\* logout(); navigate('/business-login')
handleLogout(cs) ==
    cs \o << [op |-> "logout", arg |-> ""], [op |-> "navigate", arg |-> LoginRoute] >>

\* history record of a handler run: its name, its argument, and what it found
Event(op, arg, was) == [op |-> op, arg |-> arg, was |-> was]

NoToggle == [arg |-> "", was |-> ""]

\* what toggleSubmenu finds for name n: its entry is true, false or missing
EntryState(em, n) ==
    IF n \notin DOMAIN em THEN "missing" ELSE IF em[n] THEN "true" ELSE "false"

\* what a resize event finds: the viewport narrow or wide, the sidebar open or closed
ViewState ==
    IF innerWidth < Breakpoint
    THEN (IF isSidebarOpen THEN "narrow-open" ELSE "narrow-closed")
    ELSE "wide"

\* history: the event that just ran
Record(op) == lastEvent' = Event(op, "", "") /\ prevToggle' = NoToggle

----------------------------------------------------------------------------
(* The sign-in page: state and history                                     *)

\* useState('') / useState(false) / useState(false)
InitialSignIn == [error |-> "", isSubmitting |-> FALSE, showForgotPassword |-> FALSE]

\* history record of a SignIn step: the handler run it belongs to, what the
\* awaited operation delivered, and the calls the step issued
SignInStep(op, kind, cause, responseOk, calledAuth, navigated) ==
    [op |-> op, kind |-> kind, cause |-> cause, responseOk |-> responseOk,
     calledSetAuthState |-> calledAuth, navigated |-> navigated]

SignInInitial ==
    /\ signIn = InitialSignIn
    /\ requests = << >>
    /\ signInEvent = SignInStep("mount", "", "", "none", FALSE, FALSE)

\* the three async handlers of the page
HandlerKinds == {"login", "reset", "google"}

\* the handlers that raise isSubmitting: handleSubmit and handleForgotPassword
SubmitKinds == {"login", "reset"}

\* a handler run suspended at an await: at fetch(...), at response.json(),
\* or at setAuthState(...); ok is response.ok once the response is there
Run(kind, pc, ok) == [kind |-> kind, pc |-> pc, ok |-> ok]

\* what response.json() can deliver, by the `error` field the handlers read:
\*   "null"            the body is the JSON value null
\*   "noError"         an object without an error field
\*   "falsyError"      error is the empty string (falsy)
\*   "textError"       error is a non-empty string
\*   "emptyListError"  error is the empty array: truthy, and its string form is empty
DataShapes == {"null", "noError", "falsyError", "textError", "emptyListError"}

\* a thrown value: an Error instance with its message, or some other value
ErrorOf(message) == [isError |-> TRUE, message |-> message]
NonError == [isError |-> FALSE, message |-> ""]

\* rejections of fetch(): the browser's TypeError, or a value that is no Error
FetchRejections == {ErrorOf("Failed to fetch"), NonError}

\* rejections of response.json(): the parser's SyntaxError
JsonRejections == {ErrorOf("Unexpected token < in JSON at position 0")}

\* rejections of setAuthState(): an Error, or a value that is no Error
AuthRejections == {ErrorOf("Failed to store session"), NonError}

\* reading a property of null throws a TypeError
NullAccess == ErrorOf("Cannot read properties of null")

\* the message of `throw new Error(data.error || '...')`
notOkDefault(kind) ==
    CASE kind = "login"  -> "Failed to sign in"
      [] kind = "reset"  -> "Failed to send reset email"
      [] kind = "google" -> "Google sign-in failed"

\* the message the catch block uses when the thrown value is no Error
catchDefault(kind) ==
    CASE kind = "login"  -> "An error occurred during sign in"
      [] kind = "reset"  -> "Failed to send reset email"
      [] kind = "google" -> "Google sign-in error"

\* data.error is truthy
errorTruthy(data) == data \in {"textError", "emptyListError"}

\* String(data.error), as the Error constructor converts its argument
errorToString(data) == IF data = "textError" THEN "Invalid credentials" ELSE ""

\* new Error(data.error || fallback).message
errorOrDefault(data, fallback) ==
    IF errorTruthy(data) THEN errorToString(data) ELSE fallback

\* the handler between `await response.json()` and its next await or its end:
\* a response that is not OK throws (reading data.error of null throws before
\* that); handleSubmit and handleGoogleSuccess then read data.user, which
\* throws on null, and call setAuthState; handleForgotPassword is done
afterJson(kind, ok, data) ==
    IF ~ok
    THEN IF data = "null"
         THEN [next |-> "throw", thrown |-> NullAccess]
         ELSE [next |-> "throw", thrown |-> ErrorOf(errorOrDefault(data, notOkDefault(kind)))]
    ELSE IF kind = "reset"
         THEN [next |-> "done", thrown |-> NonError]
         ELSE IF data = "null"
              THEN [next |-> "throw", thrown |-> NullAccess]
              ELSE [next |-> "setAuthState", thrown |-> NonError]

\* if (success) navigate('/')
navigatesAfter(success) == success

\* setIsSubmitting(true); setError('')
submitStart(s) == [s EXCEPT !.isSubmitting = TRUE, !.error = ""]

\* the catch block: setError(err instanceof Error ? err.message : default)
catchError(kind, s, thrown) ==
    [s EXCEPT !.error = IF thrown.isError THEN thrown.message ELSE catchDefault(kind)]

\* the success path of handleForgotPassword
resetSent(s) ==
    [s EXCEPT !.error = "Password reset email sent. Please check your inbox.",
              !.showForgotPassword = FALSE]

\* the finally block: handleSubmit and handleForgotPassword lower isSubmitting
\* however the try block ended; handleGoogleSuccess has no finally block
finallyBlock(kind, s, threw) ==
    IF kind \in SubmitKinds THEN [s EXCEPT !.isSubmitting = FALSE] ELSE s

\* faulty variant: the submit buttons are never disabled
submitDisabledNever(s) == FALSE

\* disabled={isSubmitting} on both submit buttons
submitDisabled(s) == s.isSubmitting

\* the sequence without its i-th element
RemoveAt(seq, i) == SubSeq(seq, 1, i - 1) \o SubSeq(seq, i + 1, Len(seq))

----------------------------------------------------------------------------
(* Initial states: the layout just mounted (constructor and mount effects  *)
(* have run) at any width, route and auth snapshot                         *)

Init ==
    /\ mounted = TRUE
    /\ auth \in AuthSnapshots
    /\ pathname \in Routes
    /\ innerWidth \in Widths
    /\ resizeListeners = 1
    /\ isSidebarOpen = handleResizeSidebar(innerWidth, FALSE)
    /\ isProfileMenuOpen = FALSE
    /\ isNotificationsOpen = FALSE
    /\ isMobile = handleResizeMobile(innerWidth)
    /\ expandedMenus = autoExpand(pathname, InitialExpandedMenus)
    /\ calls = << >>
    /\ output = RenderOutput
    /\ lastEvent = Event("mount", "", "")
    /\ prevToggle = NoToggle
    /\ SignInInitial

----------------------------------------------------------------------------
(* Actions                                                                 *)

\* The component is constructed and its two effects run: the resize listener is
\* registered and handleResize() is called; the auto-expand effect runs.
Mount ==
    /\ ~mounted
    /\ mounted' = TRUE
    /\ resizeListeners' = resizeListeners + 1
    /\ isSidebarOpen' = handleResizeSidebar(innerWidth, FALSE)
    /\ isProfileMenuOpen' = FALSE
    /\ isNotificationsOpen' = FALSE
    /\ isMobile' = handleResizeMobile(innerWidth)
    /\ expandedMenus' = autoExpand(pathname, InitialExpandedMenus)
    /\ UNCHANGED << auth, pathname, innerWidth, calls >>
    /\ Record("mount")
    /\ output' = RenderOutput'
    /\ UNCHANGED signInVars

\* faulty variant: the resize effect returns no cleanup, so the listener stays
UnmountLeak ==
    /\ mounted
    /\ mounted' = FALSE
    /\ resizeListeners' = resizeListeners
    /\ isSidebarOpen' = FALSE
    /\ isProfileMenuOpen' = FALSE
    /\ isNotificationsOpen' = FALSE
    /\ isMobile' = FALSE
    /\ expandedMenus' = InitialExpandedMenus
    /\ UNCHANGED << auth, pathname, innerWidth, calls >>
    /\ Record("unmount")
    /\ output' = RenderOutput'
    /\ UNCHANGED signInVars

\* Teardown: the cleanup of the resize effect removes the listener; the
\* component state is discarded.
Unmount ==
    /\ mounted
    /\ mounted' = FALSE
    /\ resizeListeners' = resizeListeners - 1
    /\ isSidebarOpen' = FALSE
    /\ isProfileMenuOpen' = FALSE
    /\ isNotificationsOpen' = FALSE
    /\ isMobile' = FALSE
    /\ expandedMenus' = InitialExpandedMenus
    /\ UNCHANGED << auth, pathname, innerWidth, calls >>
    /\ Record("unmount")
    /\ output' = RenderOutput'
    /\ UNCHANGED signInVars

\* The browser resizes the viewport to width w; every registered listener runs.
Resize(w) ==
    /\ innerWidth' = w
    /\ IF resizeListeners > 0
       THEN /\ isMobile' = handleResizeMobile(w)
            /\ isSidebarOpen' = handleResizeSidebar(w, isSidebarOpen)
       ELSE UNCHANGED << isMobile, isSidebarOpen >>
    /\ UNCHANGED << mounted, auth, pathname, resizeListeners, isProfileMenuOpen,
                    isNotificationsOpen, expandedMenus, calls >>
    /\ lastEvent' = Event("resize", "", ViewState)
    /\ prevToggle' = NoToggle
    /\ output' = RenderOutput'
    /\ UNCHANGED signInVars

\* The router publishes a new location; the auto-expand effect runs when the
\* pathname differs.
RouteChange(r) ==
    /\ pathname' = r
    /\ expandedMenus' = IF mounted THEN routeEffect(pathname, r, expandedMenus)
                                   ELSE expandedMenus
    /\ UNCHANGED << mounted, auth, innerWidth, resizeListeners, isSidebarOpen,
                    isProfileMenuOpen, isNotificationsOpen, isMobile, calls >>
    /\ Record("route")
    /\ output' = RenderOutput'
    /\ UNCHANGED signInVars

\* The auth collaborator publishes a new snapshot.
AuthChange(a) ==
    /\ a # auth
    /\ auth' = a
    /\ UNCHANGED << mounted, pathname, innerWidth, resizeListeners, calls >>
    /\ UNCHANGED uiState
    /\ Record("auth")
    /\ output' = RenderOutput'
    /\ UNCHANGED signInVars

\* A click on one of the three triggers of toggleSidebar.
SidebarClick(trigger) ==
    /\ isSidebarOpen' = toggleSidebar(isSidebarOpen)
    /\ UNCHANGED << mounted, auth, pathname, innerWidth, resizeListeners,
                    isProfileMenuOpen, isNotificationsOpen, isMobile, expandedMenus, calls >>
    /\ Record(trigger)
    /\ output' = RenderOutput'
    /\ UNCHANGED signInVars

\* the hamburger button of the header (md:hidden)
HamburgerClick ==
    /\ ShellRendered
    /\ innerWidth < Breakpoint
    /\ SidebarClick("hamburger")

\* the close button of the sidebar header: {isMobile && ...} (md:hidden)
CloseButtonClick ==
    /\ ShellRendered
    /\ output.closeButton
    /\ innerWidth < Breakpoint
    /\ SidebarClick("closeButton")

\* the backdrop: {isMobile && isSidebarOpen && ...} (md:hidden)
BackdropClick ==
    /\ ShellRendered
    /\ output.backdrop
    /\ innerWidth < Breakpoint
    /\ SidebarClick("backdrop")

\* toggleSubmenu(name)
ToggleSubmenuStep(name) ==
    /\ ShellRendered
    /\ expandedMenus' = toggleSubmenu(expandedMenus, name)
    /\ UNCHANGED << mounted, auth, pathname, innerWidth, resizeListeners, isSidebarOpen,
                    isProfileMenuOpen, isNotificationsOpen, isMobile, calls >>
    /\ lastEvent' = Event("toggleSubmenu", name, EntryState(expandedMenus, name))
    /\ prevToggle' = IF lastEvent.op = "toggleSubmenu"
                     THEN [arg |-> lastEvent.arg, was |-> lastEvent.was]
                     ELSE NoToggle
    /\ output' = RenderOutput'
    /\ UNCHANGED signInVars

\* a click on the button of a section of the sidebar
ToggleSubmenuClick == \E n \in SectionNames : ToggleSubmenuStep(n)

\* setIsNotificationsOpen(!isNotificationsOpen)
NotificationsClick ==
    /\ ShellRendered
    /\ isNotificationsOpen' = ~isNotificationsOpen
    /\ UNCHANGED << mounted, auth, pathname, innerWidth, resizeListeners, isSidebarOpen,
                    isProfileMenuOpen, isMobile, expandedMenus, calls >>
    /\ Record("notifications")
    /\ output' = RenderOutput'
    /\ UNCHANGED signInVars

\* setIsProfileMenuOpen(!isProfileMenuOpen)
ProfileClick ==
    /\ ShellRendered
    /\ isProfileMenuOpen' = ~isProfileMenuOpen
    /\ UNCHANGED << mounted, auth, pathname, innerWidth, resizeListeners, isSidebarOpen,
                    isNotificationsOpen, isMobile, expandedMenus, calls >>
    /\ Record("profile")
    /\ output' = RenderOutput'
    /\ UNCHANGED signInVars

\* The "Sign out" entry of the profile dropdown: handleLogout. The router
\* applies the navigation, so the pathname becomes the login route.
SignOutClick ==
    /\ ShellRendered
    /\ output.profileMenu
    /\ Len(calls) < 2 * MaxSignOuts
    /\ calls' = handleLogout(calls)
    /\ pathname' = LoginRoute
    /\ expandedMenus' = routeEffect(pathname, LoginRoute, expandedMenus)
    /\ UNCHANGED << mounted, auth, innerWidth, resizeListeners, isSidebarOpen,
                    isProfileMenuOpen, isNotificationsOpen, isMobile >>
    /\ Record("handleLogout")
    /\ output' = RenderOutput'
    /\ UNCHANGED signInVars

Next ==
    \/ Mount
    \/ Unmount
    \/ \E w \in Widths : Resize(w)
    \/ \E r \in Routes : RouteChange(r)
    \/ \E a \in AuthSnapshots : AuthChange(a)
    \/ HamburgerClick
    \/ CloseButtonClick
    \/ BackdropClick
    \/ ToggleSubmenuClick
    \/ NotificationsClick
    \/ ProfileClick
    \/ SignOutClick

Spec == Init /\ [][Next]_vars

----------------------------------------------------------------------------
(* A second specification for toggleSubmenu as a function of its inputs:   *)
(* it starts from every expansion map over ToggleNames (entries true,      *)
(* false or missing) and applies toggleSubmenu to any of those names.      *)

ToggleNames == { "Catalog", "Orders", "Settings" }

ExpansionMaps == UNION { [D -> BOOLEAN] : D \in SUBSET ToggleNames }

InitToggle ==
    /\ mounted = TRUE
    /\ auth = [f \in AuthFields |-> TRUE]
    /\ pathname \in { "/business/dashboard", "/business/catalog/categories" }
    /\ innerWidth = Breakpoint
    /\ resizeListeners = 1
    /\ isSidebarOpen = handleResizeSidebar(innerWidth, FALSE)
    /\ isProfileMenuOpen = FALSE
    /\ isNotificationsOpen = FALSE
    /\ isMobile = handleResizeMobile(innerWidth)
    /\ expandedMenus \in ExpansionMaps
    /\ calls = << >>
    /\ output = RenderOutput
    /\ lastEvent = Event("mount", "", "")
    /\ prevToggle = NoToggle
    /\ SignInInitial

ToggleAny == \E n \in ToggleNames : ToggleSubmenuStep(n)

NextToggle == ToggleAny

SpecToggle == InitToggle /\ [][NextToggle]_vars

----------------------------------------------------------------------------
(* A third specification for toggleSubmenu in its UI context: every        *)
(* expansion map over ToggleNames, both popover flags, a narrow or a wide  *)
(* viewport, a route that is or is not active for Catalog; the steps are   *)
(* manual toggles and route changes.                                       *)

ToggleRoutes == { "/business/dashboard", "/business/catalog/categories" }

InitToggleUI ==
    /\ mounted = TRUE
    /\ auth = [f \in AuthFields |-> TRUE]
    /\ pathname \in ToggleRoutes
    /\ innerWidth \in { Breakpoint - 1, Breakpoint }
    /\ resizeListeners = 1
    /\ isSidebarOpen \in { b \in BOOLEAN : b = handleResizeSidebar(innerWidth, b) }
    /\ isProfileMenuOpen \in BOOLEAN
    /\ isNotificationsOpen \in BOOLEAN
    /\ isMobile = handleResizeMobile(innerWidth)
    /\ expandedMenus \in ExpansionMaps
    /\ calls = << >>
    /\ output = RenderOutput
    /\ lastEvent = Event("mount", "", "")
    /\ prevToggle = NoToggle
    /\ SignInInitial

ToggleRouteChange == \E r \in ToggleRoutes : RouteChange(r)

NextToggleUI == ToggleAny \/ ToggleRouteChange

SpecToggleUI == InitToggleUI /\ [][NextToggleUI]_vars

----------------------------------------------------------------------------
(* The sign-in page. Each async handler runs to its next await in one      *)
(* step; the awaited fetch, response.json() and setAuthState settle in any *)
(* order across the runs in flight. The admin layout is not mounted while  *)
(* the page is shown. The text typed into the email and password inputs    *)
(* only travels in the request bodies and is not part of the state.        *)

\* where SignIn is routed is decided outside this file; navigate('/') leaves it
SignInRoute == "/signin"
HomeRoute == "/"

\* the variables of the layout no SignIn handler writes
layoutRest == << mounted, auth, innerWidth, resizeListeners, isSidebarOpen,
                 isProfileMenuOpen, isNotificationsOpen, isMobile, expandedMenus,
                 calls, output, lastEvent, prevToggle >>

InitSignIn ==
    /\ mounted = FALSE
    /\ auth = [f \in {} |-> TRUE]
    /\ pathname = SignInRoute
    /\ innerWidth = Breakpoint
    /\ resizeListeners = 0
    /\ isSidebarOpen = FALSE
    /\ isProfileMenuOpen = FALSE
    /\ isNotificationsOpen = FALSE
    /\ isMobile = FALSE
    /\ expandedMenus = InitialExpandedMenus
    /\ calls = << >>
    /\ output = RenderOutput
    /\ lastEvent = Event("unmount", "", "")
    /\ prevToggle = NoToggle
    /\ SignInInitial

\* handleSubmit up to `await fetch(...)`: the login form is the one rendered
\* and its submit button is enabled
SubmitLogin ==
    /\ ~signIn.showForgotPassword
    /\ ~submitDisabled(signIn)
    /\ Len(requests) < MaxInFlight
    /\ signIn' = submitStart(signIn)
    /\ requests' = Append(requests, Run("login", "fetch", FALSE))
    /\ signInEvent' = SignInStep("submit", "login", "", "none", FALSE, FALSE)
    /\ UNCHANGED layoutVars

\* handleForgotPassword up to `await fetch(...)`: the reset form is rendered
\* and its submit button is enabled
SubmitReset ==
    /\ signIn.showForgotPassword
    /\ ~submitDisabled(signIn)
    /\ Len(requests) < MaxInFlight
    /\ signIn' = submitStart(signIn)
    /\ requests' = Append(requests, Run("reset", "fetch", FALSE))
    /\ signInEvent' = SignInStep("submit", "reset", "", "none", FALSE, FALSE)
    /\ UNCHANGED layoutVars

\* handleGoogleSuccess up to `await fetch(...)`: the Google button is rendered
\* under either form and no flag disables it
GoogleSuccess ==
    /\ Len(requests) < MaxInFlight
    /\ requests' = Append(requests, Run("google", "fetch", FALSE))
    /\ signInEvent' = SignInStep("submit", "google", "", "none", FALSE, FALSE)
    /\ UNCHANGED signIn
    /\ UNCHANGED layoutVars

\* handleGoogleError
GoogleError ==
    /\ signIn' = [signIn EXCEPT !.error = "Google sign-in was unsuccessful. Please try again."]
    /\ signInEvent' = SignInStep("googleError", "google", "", "none", FALSE, FALSE)
    /\ UNCHANGED requests
    /\ UNCHANGED layoutVars

\* the "Forgot your password?" button of the login form
ShowForgotPassword ==
    /\ ~signIn.showForgotPassword
    /\ signIn' = [signIn EXCEPT !.showForgotPassword = TRUE]
    /\ signInEvent' = SignInStep("showForgot", "", "", "none", FALSE, FALSE)
    /\ UNCHANGED requests
    /\ UNCHANGED layoutVars

\* the "Back to Sign In" button of the reset form
BackToSignIn ==
    /\ signIn.showForgotPassword
    /\ signIn' = [signIn EXCEPT !.showForgotPassword = FALSE]
    /\ signInEvent' = SignInStep("backToSignIn", "", "", "none", FALSE, FALSE)
    /\ UNCHANGED requests
    /\ UNCHANGED layoutVars

\* the i-th run leaves its try block by a throw: catch, then finally
Throws(i, op, cause, responseOk, thrown) ==
    LET kind == requests[i].kind
    IN  /\ signIn' = finallyBlock(kind, catchError(kind, signIn, thrown), TRUE)
        /\ requests' = RemoveAt(requests, i)
        /\ signInEvent' = SignInStep(op, kind, cause, responseOk, FALSE, FALSE)
        /\ UNCHANGED layoutVars

\* fetch() of the i-th run resolves with a response whose ok flag is ok
FetchResolves(i, ok) ==
    /\ i \in 1..Len(requests)
    /\ requests[i].pc = "fetch"
    /\ requests' = [requests EXCEPT ![i] = Run(requests[i].kind, "json", ok)]
    /\ signInEvent' = SignInStep("fetch", requests[i].kind, "responded",
                                 IF ok THEN "true" ELSE "false", FALSE, FALSE)
    /\ UNCHANGED signIn
    /\ UNCHANGED layoutVars

\* fetch() of the i-th run rejects
FetchRejects(i, thrown) ==
    /\ i \in 1..Len(requests)
    /\ requests[i].pc = "fetch"
    /\ Throws(i, "fetch", "requestThrew", "none", thrown)

\* response.json() of the i-th run rejects
JsonRejects(i, thrown) ==
    /\ i \in 1..Len(requests)
    /\ requests[i].pc = "json"
    /\ Throws(i, "json", "jsonThrew", IF requests[i].ok THEN "true" ELSE "false", thrown)

\* response.json() of the i-th run resolves with data; the handler goes on to
\* its throw, to `await setAuthState(...)`, or to its end
JsonResolves(i, data) ==
    /\ i \in 1..Len(requests)
    /\ requests[i].pc = "json"
    /\ LET kind == requests[i].kind
           ok == requests[i].ok
           okText == IF ok THEN "true" ELSE "false"
           cause == IF ok THEN "ok" ELSE "notOk"
           step == afterJson(kind, ok, data)
       IN  CASE step.next = "throw" ->
                    Throws(i, "json", cause, okText, step.thrown)
             [] step.next = "setAuthState" ->
                    /\ requests' = [requests EXCEPT ![i] = Run(kind, "setAuthState", ok)]
                    /\ signInEvent' = SignInStep("json", kind, cause, okText, TRUE, FALSE)
                    /\ UNCHANGED signIn
                    /\ UNCHANGED layoutVars
             [] step.next = "done" ->
                    /\ signIn' = finallyBlock(kind, resetSent(signIn), FALSE)
                    /\ requests' = RemoveAt(requests, i)
                    /\ signInEvent' = SignInStep("json", kind, cause, okText, FALSE, FALSE)
                    /\ UNCHANGED layoutVars

\* setAuthState() of the i-th run resolves with success
AuthResolves(i, success) ==
    /\ i \in 1..Len(requests)
    /\ requests[i].pc = "setAuthState"
    /\ LET kind == requests[i].kind
           goes == navigatesAfter(success)
       IN  /\ signIn' = finallyBlock(kind, signIn, FALSE)
           /\ requests' = RemoveAt(requests, i)
           /\ pathname' = IF goes THEN HomeRoute ELSE pathname
           /\ signInEvent' = SignInStep("setAuthState", kind,
                                        IF success THEN "truthy" ELSE "falsy",
                                        IF requests[i].ok THEN "true" ELSE "false",
                                        FALSE, goes)
           /\ UNCHANGED layoutRest

\* setAuthState() of the i-th run rejects
AuthRejects(i, thrown) ==
    /\ i \in 1..Len(requests)
    /\ requests[i].pc = "setAuthState"
    /\ Throws(i, "setAuthState", "authThrew",
              IF requests[i].ok THEN "true" ELSE "false", thrown)

FetchSettles ==
    \E i \in 1..MaxInFlight :
        \/ \E ok \in BOOLEAN : FetchResolves(i, ok)
        \/ \E t \in FetchRejections : FetchRejects(i, t)

JsonSettles ==
    \E i \in 1..MaxInFlight :
        \/ \E d \in DataShapes : JsonResolves(i, d)
        \/ \E t \in JsonRejections : JsonRejects(i, t)

AuthSettles ==
    \E i \in 1..MaxInFlight :
        \/ \E b \in BOOLEAN : AuthResolves(i, b)
        \/ \E t \in AuthRejections : AuthRejects(i, t)

NextSignIn ==
    \/ SubmitLogin
    \/ SubmitReset
    \/ GoogleSuccess
    \/ GoogleError
    \/ ShowForgotPassword
    \/ BackToSignIn
    \/ FetchSettles
    \/ JsonSettles
    \/ AuthSettles

SpecSignIn == InitSignIn /\ [][NextSignIn]_vars

----------------------------------------------------------------------------
(* Properties                                                              *)

\* both flags of the snapshot are present and true
BothTrue ==
    /\ "isAuthenticated" \in DOMAIN auth /\ auth["isAuthenticated"] = TRUE
    /\ "isMerchant" \in DOMAIN auth /\ auth["isMerchant"] = TRUE

\* C1: at every render of the mounted layout the output is a replace-redirect
\* to the login route carrying the current location as state exactly when
\* isAuthenticated or isMerchant is not true in the snapshot current at that
\* render (false, or missing and read as false), and it is the shell with the
\* nested content region when both are true.
C1_GateDecidesEveryRender ==
    mounted =>
        /\ output.kind \in { "Navigate", "shell" }
        /\ (output.kind = "Navigate") <=> ~BothTrue
        /\ output.kind = "Navigate" =>
               /\ output.to = "/business-login"
               /\ output.replace = TRUE
               /\ output.state = [from |-> pathname]
        /\ output.kind = "shell" => output.outlet = TRUE

\* C1 witness: the snapshot has just changed to isAuthenticated true and
\* isMerchant false, and the render that followed redirects from a catalog route.
C1_Witness ==
    /\ mounted
    /\ lastEvent.op = "auth"
    /\ auth = [isAuthenticated |-> TRUE, isMerchant |-> FALSE]
    /\ pathname = "/business/catalog/products"
    /\ output.kind = "Navigate"
    /\ output.state.from = "/business/catalog/products"

\* C2: fail closed. The shell is never rendered while isAuthenticated or
\* isMerchant is missing (undefined) or false in the snapshot.
C2_FailClosed ==
    ShellRendered =>
        \A f \in AuthFields : f \in DOMAIN auth /\ auth[f] = TRUE

\* C2 witness: the snapshot has just changed to one where isAuthenticated is
\* missing and isMerchant is true, and the layout redirects to the login route.
C2_Witness ==
    /\ mounted
    /\ lastEvent.op = "auth"
    /\ "isAuthenticated" \notin DOMAIN auth
    /\ Truthy(auth, "isMerchant")
    /\ output.kind = "Navigate"
    /\ output.to = LoginRoute

\* reference prefix rule: r is p followed by some (possibly empty) rest
IsPrefixOf(p, r) == \E k \in 0..Len(r) : r = p \o SubSeq(r, k + 1, Len(r))

\* C3: the active-item resolution is the reference rule for the current route
\* and every navigation item: a flat item is active iff the route equals its
\* path; a sub-item is active iff the route starts with its path; a section is
\* active iff the route starts with the path of one of its sub-items. Whenever
\* the route starts with a sub-item's path, the sub-item and its section are
\* active. The rendered shell carries these values for every item and for
\* every sub-item it renders.
C3_ActiveResolution ==
    \A i \in ItemIndexes :
        LET item == navigationItems[i]
        IN  IF hasSubmenu(item)
            THEN /\ isMenuActive(pathname, item) <=>
                        \E k \in 1..Len(item.submenu) : IsPrefixOf(item.submenu[k].path, pathname)
                 /\ \A k \in 1..Len(item.submenu) :
                        /\ isSubItemActive(pathname, item.submenu[k]) <=>
                               IsPrefixOf(item.submenu[k].path, pathname)
                        /\ IsPrefixOf(item.submenu[k].path, pathname) =>
                               /\ isSubItemActive(pathname, item.submenu[k])
                               /\ isMenuActive(pathname, item)
                 /\ ShellRendered =>
                        /\ output.menuActive[i] <=>
                               \E k \in 1..Len(item.submenu) :
                                   IsPrefixOf(item.submenu[k].path, pathname)
                        /\ i \in DOMAIN output.subItemActive =>
                               \A k \in 1..Len(item.submenu) :
                                   output.subItemActive[i][k] <=>
                                       IsPrefixOf(item.submenu[k].path, pathname)
            ELSE /\ isMenuActive(pathname, item) <=> (pathname = item.path)
                 /\ ShellRendered => (output.menuActive[i] <=> (pathname = item.path))

\* C3 witness: after a route change to a route nested below the Products
\* sub-item the shell marks the Catalog section and the Products sub-item
\* active, and neither the Categories sub-item nor the Dashboard item.
C3_Witness ==
    /\ ShellRendered
    /\ lastEvent.op = "route"
    /\ pathname = "/business/catalog/products/1"
    /\ output.menuActive[IndexOf("Catalog")]
    /\ output.subItemActive[IndexOf("Catalog")][1]
    /\ ~output.subItemActive[IndexOf("Catalog")][2]
    /\ ~output.menuActive[IndexOf("Dashboard")]

CategoriesRoute == "/business/catalog/categories"

Catalog == navigationItems[IndexOf("Catalog")]

\* on the Categories route the Catalog section is active and the resolution
\* marks, among its sub-items, Categories and no other
CategoriesAloneActive(path) ==
    /\ isMenuActive(path, Catalog)
    /\ \A k \in 1..Len(Catalog.submenu) :
           isSubItemActive(path, Catalog.submenu[k]) <=> (Catalog.submenu[k].name = "Categories")

\* C4 as stated: whenever the current route is /business/catalog/categories,
\* the Catalog section is active, its ExpansionState entry is true, and among
\* the Catalog sub-items exactly Categories is active.
C4_Original ==
    (mounted /\ pathname = CategoriesRoute) =>
        /\ CategoriesAloneActive(pathname)
        /\ Truthy(expandedMenus, "Catalog")

\* C4 amended: whenever the current route is /business/catalog/categories the
\* Catalog section is active and among the Catalog sub-items exactly Categories
\* is active; the Catalog entry of ExpansionState is true when the layout
\* mounts on that route or the route changes to it, and on that route it is
\* false only after a manual toggle of Catalog collapsed it (or left it
\* collapsed since).
C4_CategoriesRoute ==
    /\ (mounted /\ pathname = CategoriesRoute) =>
           (CategoriesAloneActive(pathname) /\ Truthy(expandedMenus, "Catalog"))
    /\ [][ (mounted' /\ pathname' = CategoriesRoute) =>
               /\ CategoriesAloneActive(pathname')
               /\ \/ Truthy(expandedMenus', "Catalog")
                  \/ lastEvent' = Event("toggleSubmenu", "Catalog", "true")
                  \/ (mounted /\ pathname = CategoriesRoute /\ ~Truthy(expandedMenus, "Catalog"))
       ]_vars

\* C4 witness: the route has just changed to the Categories route and the
\* shell shows Catalog active and expanded with Categories alone active.
C4_Witness ==
    /\ ShellRendered
    /\ lastEvent.op = "route"
    /\ pathname = CategoriesRoute
    /\ output.menuActive[IndexOf("Catalog")]
    /\ output.expanded[IndexOf("Catalog")]
    /\ output.subItemActive[IndexOf("Catalog")] = << FALSE, TRUE, FALSE >>

\* C5: auto-expand is monotonic. No step turns an ExpansionState entry from
\* true to false except a manual toggle of that section; in particular no
\* route change does, whoever set the entry.
C5_AutoExpandMonotonic ==
    [][ \A n \in DOMAIN expandedMenus :
            (expandedMenus[n] /\ ~Truthy(expandedMenus', n)) =>
                lastEvent' = Event("toggleSubmenu", n, "true")
      ]_vars

\* C5 witness: the route has just changed to a route unrelated to Catalog and
\* the Catalog entry is still true.
C5_Witness ==
    /\ mounted
    /\ lastEvent.op = "route"
    /\ pathname = "/business/dashboard"
    /\ ~isMenuActive(pathname, Catalog)
    /\ expandedMenus["Catalog"] = TRUE

\* C6: toggling a section twice in succession, with no other event in
\* between, returns its expansion to the original boolean value, for every
\* name and every expansion map; a missing entry counts as false.
C6_ToggleTwice ==
    (lastEvent.op = "toggleSubmenu" /\ prevToggle.arg = lastEvent.arg) =>
        (Truthy(expandedMenus, lastEvent.arg) <=> (prevToggle.was = "true"))

\* C6 witness: a section that had no entry was toggled twice in succession;
\* its entry now exists and is false.
C6_Witness ==
    /\ lastEvent.op = "toggleSubmenu"
    /\ prevToggle = [arg |-> "Orders", was |-> "missing"]
    /\ lastEvent.arg = "Orders"
    /\ "Orders" \in DOMAIN expandedMenus
    /\ ~isExpanded(expandedMenus, [name |-> "Orders"])

\* C7: a resize event that takes the viewport width of the mounted layout
\* from below 768 to 768 or above leaves the sidebar-open flag true, whatever
\* it was, and isMobile false; width 768 counts as wide.
C7_NarrowToWideOpensSidebar ==
    [][ (mounted /\ lastEvent'.op = "resize" /\ innerWidth < 768 /\ innerWidth' >= 768) =>
            (isSidebarOpen' = TRUE /\ isMobile' = FALSE)
      ]_vars

\* C7 witness: a resize found the viewport narrow with the sidebar closed and
\* took it to width 768; the sidebar is open and isMobile is false.
C7_Witness ==
    /\ mounted
    /\ lastEvent = Event("resize", "", "narrow-closed")
    /\ innerWidth = 768
    /\ isSidebarOpen
    /\ ~isMobile

\* the two calls of one sign-out, in order
SignOutCalls ==
    << [op |-> "logout", arg |-> ""], [op |-> "navigate", arg |-> "/business-login"] >>

\* C8: each sign-out invocation issues exactly one logout call followed by
\* exactly one navigation to the login route, whatever the UI state it starts
\* from; nothing else issues such calls.
C8_SignOutCalls ==
    [][ /\ lastEvent'.op = "handleLogout" => calls' = calls \o SignOutCalls
        /\ calls' # calls => lastEvent'.op = "handleLogout"
      ]_vars

\* C8 witness: sign-out has just run with the notifications panel open, the
\* sidebar closed and the Catalog section collapsed; one logout and then one
\* navigation were issued.
C8_Witness ==
    /\ lastEvent.op = "handleLogout"
    /\ calls = SignOutCalls
    /\ isNotificationsOpen
    /\ isProfileMenuOpen
    /\ ~isSidebarOpen
    /\ ~Truthy(expandedMenus, "Catalog")

\* C9: in the rendered shell the backdrop is shown exactly when the viewport
\* is narrow and the sidebar is open, isMobile says whether the viewport is
\* narrow, and a click on the backdrop leaves the sidebar closed and the
\* backdrop hidden.
C9_Backdrop ==
    ShellRendered =>
        /\ isMobile <=> (innerWidth < 768)
        /\ output.backdrop <=> (innerWidth < 768 /\ isSidebarOpen)
        /\ lastEvent.op = "backdrop" => (~isSidebarOpen /\ ~output.backdrop)

\* C9 witness: the backdrop has just been clicked on a narrow viewport; the
\* sidebar is closed and the backdrop is gone.
C9_Witness ==
    /\ ShellRendered
    /\ lastEvent.op = "backdrop"
    /\ innerWidth < 768
    /\ ~isSidebarOpen
    /\ ~output.backdrop

\* the rendered shell has its sidebar open on a narrow viewport
OverlayOpen == ShellRendered /\ innerWidth < 768 /\ isSidebarOpen

\* C10 as stated: on a narrow viewport the sidebar is open only if the user
\* opened it explicitly (a click on a toggleSidebar button) while the viewport
\* was narrow: the layout does not mount with the overlay open, and no event
\* of the rendered shell other than such a click, a resize from wide to narrow
\* included, makes the overlay open.
C10_OverlayOnlyExplicitlyOpened ==
    /\ ~OverlayOpen
    /\ [][ (ShellRendered /\ ~OverlayOpen /\ OverlayOpen') =>
               /\ lastEvent'.op \in { "hamburger", "closeButton" }
               /\ innerWidth < 768
               /\ innerWidth' < 768
       ]_vars

\* C11: whenever the pathname of the mounted layout changes, after the
\* route-change handler every section that is active for the new route (the
\* route starts with the path of one of its sub-items) has its ExpansionState
\* entry true, and the entry of every section that is not active for the new
\* route is what it was.
C11_RouteChangeExpandsActive ==
    [][ (mounted /\ mounted' /\ pathname' # pathname) =>
            \A i \in SectionIndexes :
                LET item == navigationItems[i]
                IN  IF \E k \in 1..Len(item.submenu) :
                           IsPrefixOf(item.submenu[k].path, pathname')
                    THEN item.name \in DOMAIN expandedMenus' /\ expandedMenus'[item.name] = TRUE
                    ELSE EntryState(expandedMenus', item.name) =
                             EntryState(expandedMenus, item.name)
      ]_vars

\* C11 witness: the route has just changed to a route nested below the
\* Categories sub-item and the Catalog entry is true.
C11_Witness ==
    /\ mounted
    /\ lastEvent.op = "route"
    /\ pathname = "/business/catalog/categories/1"
    /\ expandedMenus["Catalog"] = TRUE
    /\ output.kind = "shell" => output.expanded[IndexOf("Catalog")]

\* C12: a toggle of a section flips exactly that section's ExpansionState
\* boolean (a missing entry counting as false) whatever the current route,
\* and leaves every other entry, the pathname, the sidebar-open flag,
\* isMobile and both popover flags unchanged; a section that is collapsed
\* becomes expanded only by a toggle of it or by a change of the pathname, so
\* a section collapsed while active stays collapsed until the next route
\* change.
C12_ToggleFlipsOnlyThatSection ==
    [][ /\ lastEvent'.op = "toggleSubmenu" =>
               /\ lastEvent'.arg \in DOMAIN expandedMenus'
               /\ expandedMenus'[lastEvent'.arg] = ~Truthy(expandedMenus, lastEvent'.arg)
               /\ \A m \in (DOMAIN expandedMenus \cup DOMAIN expandedMenus') \ { lastEvent'.arg } :
                      EntryState(expandedMenus', m) = EntryState(expandedMenus, m)
               /\ UNCHANGED << pathname, isSidebarOpen, isMobile,
                               isNotificationsOpen, isProfileMenuOpen >>
        /\ \A n \in DOMAIN expandedMenus' :
               (~Truthy(expandedMenus, n) /\ expandedMenus'[n]) =>
                   \/ (lastEvent'.op = "toggleSubmenu" /\ lastEvent'.arg = n)
                   \/ pathname' # pathname
      ]_vars

\* C12 witness: on the Categories route, with the notifications panel open
\* and an entry for Orders present, Catalog has just been toggled from
\* expanded: it is active and collapsed.
C12_Witness ==
    /\ lastEvent = Event("toggleSubmenu", "Catalog", "true")
    /\ pathname = "/business/catalog/categories"
    /\ output.kind = "shell"
    /\ output.menuActive[IndexOf("Catalog")]
    /\ ~output.expanded[IndexOf("Catalog")]
    /\ expandedMenus["Catalog"] = FALSE
    /\ "Orders" \in DOMAIN expandedMenus /\ expandedMenus["Orders"]
    /\ isNotificationsOpen

\* C13: the resize listener lives as long as the component: exactly one
\* listener is registered while the layout is mounted (whatever it renders),
\* none remains after teardown, and a resize event after teardown changes
\* neither isMobile nor the sidebar-open flag.
C13_ResizeListenerLifetime ==
    /\ resizeListeners = (IF mounted THEN 1 ELSE 0)
    /\ [][ /\ resizeListeners' = (IF mounted' THEN 1 ELSE 0)
           /\ (~mounted /\ lastEvent'.op = "resize") =>
                  UNCHANGED << isMobile, isSidebarOpen >>
       ]_vars

\* C13 witness: after teardown a resize took the viewport from wide to
\* narrow; no listener is registered and isMobile was not updated.
C13_Witness ==
    /\ ~mounted
    /\ resizeListeners = 0
    /\ lastEvent = Event("resize", "", "wide")
    /\ innerWidth < 768
    /\ ~isMobile

----------------------------------------------------------------------------
(* The sign-in page                                                        *)

\* the handlers that can navigate: handleSubmit and handleGoogleSuccess
NavigatingKinds == {"login", "google"}

\* the step ended a run because the response was not OK, or because the
\* request or the JSON parsing threw
SignInFailed(e) ==
    /\ e.kind \in NavigatingKinds
    /\ e.cause \in {"notOk", "requestThrew", "jsonThrew"}

\* navigate('/') is issued only by a step in which setAuthState resolved truthy
\* for a run whose response was OK; a failed step neither navigates nor calls
\* setAuthState (supporting property: the part of C14 that holds)
SignInNavigatesOnlyAfterSuccess ==
    [][ /\ (signInEvent'.navigated \/ pathname' # pathname) =>
               /\ signInEvent'.navigated
               /\ pathname' = HomeRoute
               /\ signInEvent'.kind \in NavigatingKinds
               /\ signInEvent'.op = "setAuthState"
               /\ signInEvent'.cause = "truthy"
               /\ signInEvent'.responseOk = "true"
        /\ SignInFailed(signInEvent') =>
               /\ ~signInEvent'.navigated
               /\ pathname' = pathname
               /\ ~signInEvent'.calledSetAuthState
               /\ \A i \in 1..Len(requests') : requests'[i].ok \/ requests'[i].pc # "setAuthState"
      ]_vars

\* C14: in the sign-in page navigate('/') is issued only after the auth API
\* answered OK and setAuthState resolved truthy, for password login and for
\* Google sign-in; when the response is not OK or the request or the JSON
\* parsing throws, nothing navigates, setAuthState is not called and the error
\* message is set to a non-empty string.
C14_FailureSetsError ==
    [][ /\ (signInEvent'.navigated \/ pathname' # pathname) =>
               /\ signInEvent'.navigated
               /\ signInEvent'.kind \in NavigatingKinds
               /\ signInEvent'.op = "setAuthState"
               /\ signInEvent'.cause = "truthy"
               /\ signInEvent'.responseOk = "true"
        /\ SignInFailed(signInEvent') =>
               /\ ~signInEvent'.navigated
               /\ pathname' = pathname
               /\ ~signInEvent'.calledSetAuthState
               /\ signIn'.error # ""
      ]_vars

\* the handleSubmit and handleForgotPassword runs in flight
SubmitsInFlight == { i \in 1..Len(requests) : requests[i].kind \in SubmitKinds }

\* C15: isSubmitting is true exactly while a password-login or password-reset
\* run is in flight, and at most one such run is in flight at any time, also
\* when the user switches between the two forms during the request.
C15_SubmittingWhileInFlight ==
    /\ Cardinality(SubmitsInFlight) <= 1
    /\ signIn.isSubmitting <=> (SubmitsInFlight # {})

\* a login run is in flight, the user has switched to the reset form, whose
\* submit button is disabled
C15_Witness ==
    /\ signIn.showForgotPassword
    /\ signIn.isSubmitting
    /\ submitDisabled(signIn)
    /\ signInEvent.op = "showForgot"
    /\ \E i \in 1..Len(requests) : requests[i].kind = "login"

====
